---- MODULE Spec2Model ----
(***************************************************************************)
(* storaget: a record cell (Pack<T>) coupled to a backing file, and an     *)
(* id-indexed collection (Storage<T>) of shared, mutex-protected records   *)
(* (DataObject<T>) persisted one file per record.                          *)
(*                                                                         *)
(* Two groups of variables: pk* is one Pack<i32> and the file at its path; *)
(* the rest is one directory, the Storage opened over it, the threads that *)
(* work on it, an iterator over it, and a second Storage instance opened   *)
(* over the same directory.                                                *)
(***************************************************************************)
EXTENDS Integers, Sequences, FiniteSets, TLC

VARIABLES
    pkLive,     \* a Pack value exists (constructed and not dropped)
    pkData,     \* Pack.data
    pkFile,     \* the file at Pack.path: [exists, bytes]
    pkGuard,    \* a PackGuard borrowed from the Pack is alive
    pkOp,       \* the operation that ran last, with its input and outcome
    pkLog,      \* failure-reporting side channel of the guard release
    pkSteps,    \* number of Pack operations so far
    dirExists,  \* the collection's directory exists
    files,      \* the directory: file name -> bytes
    stOpen,     \* a Storage instance has been constructed over the directory
    data,       \* Storage.data: the records behind the Arc<Mutex<T>> cells
    lookup,     \* Storage.lookup_table: id -> index into data (from 0)
    lock,       \* per cell, the thread holding its mutex (0: free)
    poisoned,   \* per cell, the mutex was held by a thread that panicked
    pc,         \* per thread, its position
    hnd,        \* per thread, the cell of the DataObject it holds (0: none)
    cnt,        \* per thread, update calls that returned
    opened,     \* outcome of the last load_storage
    opens,      \* number of load_storage calls so far
    hist,       \* per cell, the closures applied to it, in order
    base,       \* per cell, the record it was created with
    pre,        \* per thread, the record its running or failed update found
    post,       \* per thread, the record its closure left, until it is saved
    intact,     \* no file write has failed and nothing else wrote the directory
    iter,       \* the DataIter in use: its snapshot, its index, what it yielded
    twin,       \* a second Storage instance opened over the same directory
    shown,      \* an error value and the texts it was formatted to
    ins         \* inserts step by step: lock holder, records, results

pkVars == <<pkLive, pkData, pkFile, pkGuard, pkOp, pkLog, pkSteps>>

dirVars == <<dirExists, files>>

stVars == <<stOpen, data, lookup, lock, poisoned, opened, opens>>

thVars == <<pc, hnd, cnt>>

ghostVars == <<hist, base, pre, post, intact>>

\* What the operations of the first Storage instance leave alone.
restVars == <<pkVars, iter, twin, shown, ins>>

vars ==
    <<pkVars, dirVars, stVars, thVars, ghostVars, iter, twin, shown, ins>>

----------------------------------------------------------------------------
(* Bounds *)

MaxPackSteps == 6

MaxEntries == 2

MaxUpdates == 1

MaxOpens == 2

----------------------------------------------------------------------------
(* Results and errors *)

\* lib.rs PackError: the closed set of error variants.
PackError ==
    {"InternalError", "SerializeError", "DeserializeError", "IOError",
     "ObjectNotFound", "PathNotFound"}

\* A result carrying an integer: Ok(val) or Err(err).
Ok(v) == [ok |-> TRUE, val |-> v, err |-> "none"]
Err(e) == [ok |-> FALSE, val |-> 0, err |-> e]

----------------------------------------------------------------------------
(* Codec for a scalar record (serde_yaml): the document start marker and   *)
(* the value, e.g. "---\n42".                                              *)

EncodeInt(v) == <<"---", v>>

DecodeInt(bytes) ==
    IF Len(bytes) = 2 /\ bytes[1] = "---"
    THEN Ok(bytes[2])
    ELSE Err("DeserializeError")

NoFile == [exists |-> FALSE, bytes |-> <<>>]

----------------------------------------------------------------------------
(* Closures passed to update: the new value and the result R they return.  *)

Closures == {"inc", "dbl", "set42"}

Apply(f, v) ==
    CASE f = "inc" -> v + 1
      [] f = "dbl" -> 2 * v
      [] f = "set42" -> 42

\* The closure's result: the value it found.
Res(f, v) == v

----------------------------------------------------------------------------
(* Pack<T> *)

\* Pack::save
save(self) == Ok(0)

\* An update that keeps the mutated value when save fails.
update_no_rollback(self, f, saved) ==
    IF saved.ok
    THEN [data |-> Apply(f, self), ret |-> Ok(Res(f, self))]
    ELSE [data |-> Apply(f, self), ret |-> Err(saved.err)]

\* Pack::update, given the result `saved` of its call of self.save():
\* backup, f on the live data, then res on Ok, the backup restored and the
\* error returned on Err.
update(self, f, saved) ==
    LET backup == self
        live == Apply(f, self)
        res == Res(f, self)
    IN  IF saved.ok
        THEN [data |-> live, ret |-> Ok(res)]
        ELSE [data |-> backup, ret |-> Err(saved.err)]

InitPackVars ==
    /\ pkLive = FALSE
    /\ pkData = 0
    /\ pkFile = NoFile
    /\ pkGuard = FALSE
    /\ pkOp = [op |-> "none", f |-> "none", pre |-> 0, ret |-> Ok(0),
               io |-> "ok", exit |-> "none", saved |-> Ok(0)]
    /\ pkLog = <<>>
    /\ pkSteps = 0

\* The default value of the record type (i32::default()).
DefaultValue == 0

\* Values written through a guard (the tests write 17 and 42).
GuardValues == {17, 42}

\* Ways the scope holding a guard can end.
ExitPaths == {"scope_end", "early_return", "unwind"}

\* Outcomes of one file-system call: done, or failed with an io::Error.
IoOutcomes == {"ok", "fail"}

\* A persist that reports success without writing.
persist_nothing(file, value, io) ==
    IF io = "ok"
    THEN [file |-> file, ret |-> Ok(0)]
    ELSE [file |-> file, ret |-> Err("IOError")]

\* Persist: overwrite the backing file in full with the encoded value, or
\* fail with IOError and leave the file as it was.
persist(file, value, io) ==
    IF io = "ok"
    THEN [file |-> [exists |-> TRUE, bytes |-> EncodeInt(value)], ret |-> Ok(0)]
    ELSE [file |-> file, ret |-> Err("IOError")]

\* load: read the file and decode it.
load_pack(file) ==
    IF ~file.exists THEN Err("IOError") ELSE DecodeInt(file.bytes)

\* The record of an operation: its name, closure, the value it found, its
\* result, the outcome of its file write, the way the scope ended and the
\* result of its save call.
PackStep(op, f, found, result, io, exit, saved) ==
    /\ pkSteps < MaxPackSteps
    /\ pkSteps' = pkSteps + 1
    /\ UNCHANGED <<dirVars, stVars, thVars, ghostVars, iter, twin, shown,
                   ins>>
    /\ pkOp' = [op |-> op, f |-> f, pre |-> found, ret |-> result,
                io |-> io, exit |-> exit, saved |-> saved]

\* Pack::load_or_init: load the file when it exists, otherwise create the
\* cell with the default value and persist it at once.
PackLoadOrInit(io) ==
    /\ ~pkLive
    /\ IF pkFile.exists
       THEN LET r == load_pack(pkFile)
            IN  /\ io = "ok"
                /\ pkLive' = r.ok
                /\ pkData' = IF r.ok THEN r.val ELSE pkData
                /\ pkFile' = pkFile
                /\ PackStep("load", "none", pkData, r, io, "none", Ok(0))
       ELSE LET p == persist(pkFile, DefaultValue, io)
            IN  /\ pkLive' = p.ret.ok
                /\ pkData' = IF p.ret.ok THEN DefaultValue ELSE pkData
                /\ pkFile' = p.file
                /\ PackStep("create", "none", pkData, p.ret, io, "none", Ok(0))
    /\ UNCHANGED <<pkGuard, pkLog>>

\* drop(pack)
PackDrop ==
    /\ pkLive /\ ~pkGuard
    /\ pkLive' = FALSE
    /\ PackStep("drop", "none", pkData, Ok(0), "ok", "none", Ok(0))
    /\ UNCHANGED <<pkData, pkFile, pkGuard, pkLog>>

\* pack.update(f), with save as the source has it.
PackUpdate(f) ==
    /\ pkLive /\ ~pkGuard
    /\ LET saved == save(Apply(f, pkData))
           r == update(pkData, f, saved)
       IN  /\ pkData' = r.data
           /\ PackStep("update", f, pkData, r.ret, "ok", "none", saved)
    /\ UNCHANGED <<pkLive, pkFile, pkGuard, pkLog>>

\* Results a save call can have by its type PackResult<()>.
SaveResults == {Ok(0), Err("IOError"), Err("SerializeError")}

\* pack.update(f) with the persist step made to fail or succeed.
PackUpdateSaved(f, saved) ==
    /\ pkLive /\ ~pkGuard
    /\ LET r == update(pkData, f, saved)
       IN  /\ pkData' = r.data
           /\ PackStep("update", f, pkData, r.ret, "ok", "none", saved)
    /\ UNCHANGED <<pkLive, pkFile, pkGuard, pkLog>>

\* pack.as_mut(): a guard with direct mutable access to the value.
PackAsMut ==
    /\ pkLive /\ ~pkGuard
    /\ pkGuard' = TRUE
    /\ PackStep("as_mut", "none", pkData, Ok(0), "ok", "none", Ok(0))
    /\ UNCHANGED <<pkLive, pkData, pkFile, pkLog>>

\* *guard = v (DerefMut)
GuardWrite(v) ==
    /\ pkGuard
    /\ pkData' = v
    /\ PackStep("guard_write", "none", pkData, Ok(0), "ok", "none", Ok(0))
    /\ UNCHANGED <<pkLive, pkFile, pkGuard, pkLog>>

\* A release that persists and drops the error of a failed persist.
GuardDrop_silent(exit, io) ==
    /\ pkGuard
    /\ LET p == persist(pkFile, pkData, io)
       IN  /\ pkFile' = p.file
           /\ PackStep("guard_drop", "none", pkData, p.ret, io, exit, Ok(0))
    /\ pkGuard' = FALSE
    /\ UNCHANGED <<pkLive, pkData, pkLog>>

\* The guard's scope ends: persist without backup or rollback; a failure
\* cannot be returned and goes to the side channel.
GuardDrop(exit, io) ==
    /\ pkGuard
    /\ LET p == persist(pkFile, pkData, io)
       IN  /\ pkFile' = p.file
           /\ pkLog' = IF p.ret.ok THEN pkLog ELSE Append(pkLog, p.ret.err)
           /\ PackStep("guard_drop", "none", pkData, p.ret, io, exit, Ok(0))
    /\ pkGuard' = FALSE
    /\ UNCHANGED <<pkLive, pkData>>

----------------------------------------------------------------------------
(* Identifiers, records and their codec *)

Threads == {1, 2}

\* Record ids: strings, as sequences of characters.
Ids == {<<"a">>, <<" ", "a">>}

\* Strings passed to get_by_id.
Queries == Ids \cup {<<"a", " ">>, <<"b">>}

\* Ages of inserted records.
InsertAges == {1, 2}

Whitespace == {" "}

RECURSIVE TrimStart(_)
TrimStart(s) ==
    IF s # <<>> /\ Head(s) \in Whitespace THEN TrimStart(Tail(s)) ELSE s

RECURSIVE TrimEnd(_)
TrimEnd(s) ==
    IF s # <<>> /\ s[Len(s)] \in Whitespace
    THEN TrimEnd(SubSeq(s, 1, Len(s) - 1))
    ELSE s

\* str::trim
Trim(s) == TrimEnd(TrimStart(s))

\* A record of the collection (the tests' User): its id and one field.
Record(id, age) == [id |-> id, age |-> age]

NoRecord == Record(<<>>, 0)

\* prelude.rs Error: the closed set of error variants.
Error ==
    {"InternalError", "ObjectNotFound", "PathNotFound", "SerializeError",
     "DeserializeError", "IOError"}

\* A serializer that writes a fixed age.
serialize_object_lossy(rec) == <<"---", <<"id", rec.id>>, <<"age", 1>>>>

\* serialize_object: the YAML document of a record, line by line
\* ("---\nid: 1\nname: Puppy Joe").
serialize_object(rec) == <<"---", <<"id", rec.id>>, <<"age", rec.age>>>>

\* deserialize_object: parse the document back, DeserializeError when the
\* bytes are not a document of this shape.
deserialize_object(bytes) ==
    IF /\ Len(bytes) = 3
       /\ bytes[1] = "---"
       /\ Len(bytes[2]) = 2 /\ bytes[2][1] = "id"
       /\ Len(bytes[3]) = 2 /\ bytes[3][1] = "age"
    THEN [ok |-> TRUE, rec |-> Record(bytes[2][2], bytes[3][2]), err |-> "none"]
    ELSE [ok |-> FALSE, rec |-> NoRecord, err |-> "DeserializeError"]

\* The name of a record's file inside the directory: format!("{}/{}.yml").
PathOf(id) == <<id, ".yml">>

NoFiles == [n \in {} |-> <<>>]

WriteFile(fs, name, bytes) ==
    [n \in DOMAIN fs \cup {name} |-> IF n = name THEN bytes ELSE fs[n]]

\* Results of the Storage operations.
StOk == [kind |-> "Ok", err |-> "none", val |-> 0]
StVal(v) == [kind |-> "Ok", err |-> "none", val |-> v]
StErr(e) == [kind |-> "Err", err |-> e, val |-> 0]
StPanic == [kind |-> "Panic", err |-> "none", val |-> 0]
StNone == [kind |-> "None", err |-> "none", val |-> 0]

\* What a file write meets: both steps succeed, File::create fails, or the
\* file is created (truncated) and the write of the bytes fails.
WriteOutcomes == {"ok", "create_err", "write_err"}

----------------------------------------------------------------------------
(* file.rs *)

\* A save that reports success and writes nothing.
save_storage_object_nothing(fs, exists, rec, io) ==
    [files |-> fs, ret |-> IF exists /\ io = "ok" THEN StOk ELSE StErr("IOError")]

\* save_storage_object: File::create on <path>/<id>.yml, then write the
\* serialized record; each step's error is returned with `?`.
save_storage_object(fs, exists, rec, io) ==
    IF ~exists \/ io = "create_err"
    THEN [files |-> fs, ret |-> StErr("IOError")]
    ELSE IF io = "write_err"
    THEN [files |-> WriteFile(fs, PathOf(rec.id), <<>>),
          ret |-> StErr("IOError")]
    ELSE [files |-> WriteFile(fs, PathOf(rec.id), serialize_object(rec)),
          ret |-> StOk]

\* A manage_path that only looks whether the directory exists.
manage_path_checks_only(exists, io) == [exists |-> exists, ret |-> StOk]

\* manage_path: create the directory when it does not exist.
manage_path(exists, io) ==
    IF ~exists
    THEN IF io = "ok"
         THEN [exists |-> TRUE, ret |-> StOk]
         ELSE [exists |-> FALSE, ret |-> StErr("InternalError")]
    ELSE [exists |-> exists, ret |-> StOk]

\* A remove_path that reports success and deletes nothing.
remove_path_keeps_files(exists, fs, io) ==
    IF exists /\ io = "ok"
    THEN [exists |-> exists, files |-> fs, ret |-> StOk]
    ELSE [exists |-> exists, files |-> fs, ret |-> StErr("InternalError")]

\* remove_path: fs::remove_dir_all.
remove_path(exists, fs, io) ==
    IF exists /\ io = "ok"
    THEN [exists |-> FALSE, files |-> NoFiles, ret |-> StOk]
    ELSE [exists |-> exists, files |-> fs, ret |-> StErr("InternalError")]

\* The loop of load over the file names in listing order: read each file
\* and unwrap its deserialize_object.
RECURSIVE load_loop(_, _, _)
load_loop(fs, names, st_temp) ==
    IF names = <<>>
    THEN [kind |-> "Ok", items |-> st_temp]
    ELSE LET d == deserialize_object(fs[Head(names)])
         IN  IF d.ok
             THEN load_loop(fs, Tail(names), Append(st_temp, d.rec))
             ELSE [kind |-> "Panic", items |-> <<>>]

\* load: list the directory (read_dir, in the order `names`) and decode
\* every file in it.
load(fs, names) == load_loop(fs, names, <<>>)

----------------------------------------------------------------------------
(* Storage<T> *)

\* Storage::new: no entries, an empty lookup table.
NewStorage == [data |-> <<>>, lookup |-> [i \in {} |-> 0]]

\* The error of an insert whose id is taken: the Error type has no variant
\* of its own for it, InternalError is its catch-all.
IdTakenError == "InternalError"

\* An insert that enters the position counted from 1.
append_entry_from_one(st, fs, exists, rec, io) ==
    LET w == save_storage_object(fs, exists, rec, io)
    IN  IF w.ret.kind # "Ok"
        THEN [st |-> st, files |-> w.files, ret |-> w.ret]
        ELSE [st |-> [data |-> Append(st.data, rec),
                      lookup |-> [i \in DOMAIN st.lookup \cup {rec.id} |->
                                     IF i = rec.id THEN Len(st.data) + 1
                                     ELSE st.lookup[i]]],
              files |-> w.files, ret |-> StOk]

\* The part of add_to_storage after the id check: persist, then append.
append_entry(st, fs, exists, rec, io) ==
    LET w == save_storage_object(fs, exists, rec, io)
    IN  IF w.ret.kind # "Ok"
        THEN [st |-> st, files |-> w.files, ret |-> w.ret]
        ELSE [st |-> [data |-> Append(st.data, rec),
                      lookup |-> [i \in DOMAIN st.lookup \cup {rec.id} |->
                                     IF i = rec.id THEN Len(st.data)
                                     ELSE st.lookup[i]]],
              files |-> w.files, ret |-> StOk]

\* An insert that writes the record's file before it looks at the id.
add_to_storage_write_first(st, fs, exists, rec, io) ==
    LET w == save_storage_object(fs, exists, rec, io)
    IN  IF rec.id \in DOMAIN st.lookup
        THEN [st |-> st, files |-> w.files, ret |-> StErr(IdTakenError)]
        ELSE append_entry(st, fs, exists, rec, io)

\* add_to_storage: reject an id that is present, without side effects;
\* otherwise persist the record to its file, append the cell and enter its
\* position in the lookup table.
add_to_storage(st, fs, exists, rec, io) ==
    IF rec.id \in DOMAIN st.lookup
    THEN [st |-> st, files |-> fs, ret |-> StErr(IdTakenError)]
    ELSE append_entry(st, fs, exists, rec, io)

\* The loop of load_storage: add_to_storage(item)? for every loaded item.
RECURSIVE add_all(_, _, _, _, _)
add_all(st, fs, exists, items, io) ==
    IF items = <<>>
    THEN [st |-> st, files |-> fs, ret |-> StOk]
    ELSE LET a == add_to_storage(st, fs, exists, Head(items), io)
         IN  IF a.ret.kind = "Ok"
             THEN add_all(a.st, a.files, exists, Tail(items), io)
             ELSE [st |-> NewStorage, files |-> a.files, ret |-> a.ret]

\* load_storage: manage_path(path)?, Storage::new(path), then every item of
\* load(path)? is added; `names` is the order read_dir lists the files in,
\* `mk` and `io` what creating the directory and writing the files meet.
load_storage(exists, fs, names, mk, io) ==
    LET m == manage_path(exists, mk)
    IN  IF m.ret.kind # "Ok"
        THEN [st |-> NewStorage, exists |-> m.exists, files |-> fs,
              ret |-> m.ret]
        ELSE LET l == load(fs, names)
             IN  IF l.kind = "Panic"
                 THEN [st |-> NewStorage, exists |-> m.exists, files |-> fs,
                       ret |-> StPanic]
                 ELSE LET a == add_all(NewStorage, fs, m.exists, l.items, io)
                      IN  [st |-> a.st, exists |-> m.exists,
                           files |-> a.files, ret |-> a.ret]

\* A lookup that removes leading whitespace only.
get_by_id_trim_start(st, query) ==
    LET id == TrimStart(query)
    IN  IF id \in DOMAIN st.lookup
        THEN [ok |-> TRUE, cell |-> st.lookup[id] + 1, err |-> "none"]
        ELSE [ok |-> FALSE, cell |-> 0, err |-> "ObjectNotFound"]

\* A lookup by the string as given.
get_by_id_untrimmed(st, query) ==
    IF query \in DOMAIN st.lookup
    THEN [ok |-> TRUE, cell |-> st.lookup[query] + 1, err |-> "none"]
    ELSE [ok |-> FALSE, cell |-> 0, err |-> "ObjectNotFound"]

\* get_by_id: trim the query, look its position up and hand out the cell
\* at that position; ObjectNotFound when the table has no such key.
get_by_id(st, query) ==
    LET id == Trim(query)
    IN  IF id \in DOMAIN st.lookup
        THEN [ok |-> TRUE, cell |-> st.lookup[id] + 1, err |-> "none"]
        ELSE [ok |-> FALSE, cell |-> 0, err |-> "ObjectNotFound"]

----------------------------------------------------------------------------
(* The collection at work: one opener, and threads that insert, look up,   *)
(* read and update.                                                        *)

\* No iterator is in use.
NoIter ==
    [live |-> FALSE, data |-> <<>>, index |-> 0, yielded |-> <<>>,
     ended |-> FALSE, started |-> 0]

\* No second instance is open.
NoTwin ==
    [open |-> FALSE, data |-> <<>>, lookup |-> [i \in {} |-> 0],
     lock |-> <<>>, hnd |-> 0]

\* Closures passed to DataObject::update.
Updates == {"inc", "dbl"}

\* The orders in which read_dir may list a set of file names.
Orders(S) ==
    {q \in [1..Cardinality(S) -> S] : \A n \in S : \E i \in DOMAIN q : q[i] = n}

Cells == 1..Len(data)

Storage == [data |-> data, lookup |-> lookup]

Quiet ==
    /\ \A t \in Threads : pc[t] \in {"idle", "panicked"}
    /\ ~iter.live

\* load_storage(path) by the owner of the directory, once no thread holds
\* a handle of the previous instance.
LoadStorage(names, mk, io) ==
    /\ Quiet
    /\ opens < MaxOpens
    /\ names \in Orders(DOMAIN files)
    /\ dirExists => mk = "ok"
    /\ LET r == load_storage(dirExists, files, names, mk, io)
       IN  /\ opened' = r.ret
           /\ stOpen' = (r.ret.kind = "Ok")
           /\ data' = r.st.data
           /\ lookup' = r.st.lookup
           /\ dirExists' = r.exists
           /\ files' = r.files
           /\ lock' = [i \in 1..Len(r.st.data) |-> 0]
           /\ poisoned' = [i \in 1..Len(r.st.data) |-> FALSE]
           /\ hist' = [i \in 1..Len(r.st.data) |-> <<>>]
           /\ base' = r.st.data
           /\ intact' = (intact /\ (r.ret.kind = "Ok" \/ r.files = files))
    /\ opens' = opens + 1
    /\ pre' = [t \in Threads |-> NoRecord]
    /\ UNCHANGED <<restVars, pc, hnd, cnt, post>>

\* storage.add_to_storage(rec)
AddToStorage(t, rec, io) ==
    /\ stOpen /\ pc[t] = "idle"
    /\ rec.id \in DOMAIN lookup \/ Len(data) < MaxEntries
    /\ LET a == add_to_storage(Storage, files, dirExists, rec, io)
           grown == Len(a.st.data) > Len(data)
       IN  /\ data' = a.st.data
           /\ lookup' = a.st.lookup
           /\ files' = a.files
           /\ lock' = IF grown THEN Append(lock, 0) ELSE lock
           /\ poisoned' = IF grown THEN Append(poisoned, FALSE) ELSE poisoned
           /\ hist' = IF grown THEN Append(hist, <<>>) ELSE hist
           /\ base' = IF grown THEN Append(base, rec) ELSE base
           /\ intact' = (intact /\ (a.ret.kind = "Ok" \/ a.files = files))
    /\ UNCHANGED <<restVars, dirExists, stOpen, opened, opens, thVars, pre,
                   post>>

\* storage.get_by_id(query): a DataObject on the cell found.
GetById(t, query) ==
    /\ stOpen /\ pc[t] = "idle"
    /\ LET r == get_by_id(Storage, query)
       IN  /\ hnd' = [hnd EXCEPT ![t] = r.cell]
           /\ pc' = [pc EXCEPT ![t] = IF r.ok THEN "handle" ELSE "idle"]
    /\ UNCHANGED <<restVars, dirVars, stVars, cnt, ghostVars>>

\* The DataObject goes out of scope.
DropHandle(t) ==
    /\ pc[t] = "handle"
    /\ pc' = [pc EXCEPT ![t] = "idle"]
    /\ hnd' = [hnd EXCEPT ![t] = 0]
    /\ UNCHANGED <<restVars, dirVars, stVars, cnt, ghostVars>>

\* A lock shared by all the records of the collection.
lock_unwrap_global(t, c) ==
    IF \E d \in DOMAIN lock : lock[d] # 0 THEN "blocked"
    ELSE IF poisoned[c] THEN "panic"
    ELSE "locked"

\* A lock that is handed out while it is held.
lock_unwrap_never_waits(t, c) ==
    IF poisoned[c] THEN "panic" ELSE "locked"

\* lock() on the cell's mutex: "blocked" while another thread holds it,
\* Err (and unwrap panics) once a holder has panicked.
lock_unwrap(t, c) ==
    IF lock[c] # 0 THEN "blocked"
    ELSE IF poisoned[c] THEN "panic"
    ELSE "locked"

\* A thread panics: it never runs again.
Panicked(t) == pc' = [pc EXCEPT ![t] = "panicked"]

\* A read of a private copy of the record, made when the cell was created.
get_stale(t, c) ==
    IF lock_unwrap(t, c) = "panic" THEN StPanic ELSE StVal(base[c].age)

\* object.get(|u| u.age): lock().unwrap(), f on the value, unlock.
get(t, c) ==
    IF lock_unwrap(t, c) = "panic" THEN StPanic ELSE StVal(data[c].age)

Get(t) ==
    /\ pc[t] = "handle"
    /\ lock_unwrap(t, hnd[t]) # "blocked"
    /\ IF get(t, hnd[t]).kind = "Panic" THEN Panicked(t) ELSE UNCHANGED pc
    /\ UNCHANGED <<restVars, dirVars, stVars, hnd, cnt, ghostVars>>

\* object.exec(|u| u.age): as get, with an FnMut closure.
exec(t, c) ==
    IF lock_unwrap(t, c) = "panic" THEN StPanic ELSE StVal(data[c].age)

Exec(t) ==
    /\ pc[t] = "handle"
    /\ lock_unwrap(t, hnd[t]) # "blocked"
    /\ IF exec(t, hnd[t]).kind = "Panic" THEN Panicked(t) ELSE UNCHANGED pc
    /\ UNCHANGED <<restVars, dirVars, stVars, hnd, cnt, ghostVars>>

\* object.get_data_ref(): the MutexGuard itself goes to the caller.
GetDataRef(t) ==
    /\ pc[t] = "handle"
    /\ lock_unwrap(t, hnd[t]) # "blocked"
    /\ IF lock_unwrap(t, hnd[t]) = "panic"
       THEN Panicked(t) /\ UNCHANGED lock
       ELSE /\ pc' = [pc EXCEPT ![t] = "guard"]
            /\ lock' = [lock EXCEPT ![hnd[t]] = t]
    /\ UNCHANGED <<restVars, dirVars, stOpen, data, lookup, poisoned, opened,
                   opens, hnd, cnt, ghostVars>>

\* A guard whose drop leaves the mutex locked.
DropDataRef_keeps_lock(t) ==
    /\ pc[t] = "guard"
    /\ pc' = [pc EXCEPT ![t] = "handle"]
    /\ lock' = lock
    /\ UNCHANGED <<restVars, dirVars, stOpen, data, lookup, poisoned, opened,
                   opens, hnd, cnt, ghostVars>>

\* The MutexGuard of get_data_ref goes out of scope.
DropDataRef(t) ==
    /\ pc[t] = "guard"
    /\ pc' = [pc EXCEPT ![t] = "handle"]
    /\ lock' = [lock EXCEPT ![hnd[t]] = 0]
    /\ UNCHANGED <<restVars, dirVars, stOpen, data, lookup, poisoned, opened,
                   opens, hnd, cnt, ghostVars>>

\* object.update(f), first statement:
\*     let res = f(&mut self.data.lock().unwrap());
\* the mutex is taken, f runs on the value, and the guard, a temporary of
\* the statement, is dropped at its end.
UpdateApply(t, f) ==
    /\ pc[t] = "handle"
    /\ cnt[t] < MaxUpdates
    /\ lock_unwrap(t, hnd[t]) # "blocked"
    /\ IF lock_unwrap(t, hnd[t]) = "panic"
       THEN /\ Panicked(t)
            /\ UNCHANGED <<data, hist, pre, post>>
       ELSE /\ data' = [data EXCEPT ![hnd[t]].age = Apply(f, @)]
            /\ pc' = [pc EXCEPT ![t] = "applied"]
            /\ pre' = [pre EXCEPT ![t] = data[hnd[t]]]
            /\ post' = [post EXCEPT ![t] = data'[hnd[t]]]
            /\ hist' = [hist EXCEPT ![hnd[t]] = Append(@, f)]
    /\ UNCHANGED <<restVars, dirVars, stOpen, lookup, lock, poisoned, opened,
                   opens, hnd, cnt, base, intact>>

\* object.update(f), second statement:
\*     save_storage_object(&*self.data.lock().unwrap(), self.path).unwrap();
\* the mutex is taken again and the value found then is written; a failed
\* save panics while the guard is alive, which poisons the mutex.
UpdateSave(t, io) ==
    /\ pc[t] = "applied"
    /\ lock_unwrap(t, hnd[t]) # "blocked"
    /\ IF lock_unwrap(t, hnd[t]) = "panic"
       THEN /\ Panicked(t)
            /\ UNCHANGED <<files, poisoned, cnt, pre, intact>>
       ELSE LET w == save_storage_object(files, dirExists, data[hnd[t]], io)
            IN  /\ files' = w.files
                /\ intact' = (intact /\ w.ret.kind = "Ok")
                /\ IF w.ret.kind = "Ok"
                   THEN /\ pc' = [pc EXCEPT ![t] = "handle"]
                        /\ cnt' = [cnt EXCEPT ![t] = @ + 1]
                        /\ pre' = [pre EXCEPT ![t] = NoRecord]
                        /\ UNCHANGED poisoned
                   ELSE /\ Panicked(t)
                        /\ poisoned' = [poisoned EXCEPT ![hnd[t]] = TRUE]
                        /\ UNCHANGED <<cnt, pre>>
    /\ post' = [post EXCEPT ![t] = NoRecord]
    /\ UNCHANGED <<restVars, dirExists, stOpen, data, lookup, lock, opened,
                   opens, hnd, hist, base>>

\* storage.remove()
Remove(t, io) ==
    /\ stOpen /\ pc[t] = "idle"
    /\ LET r == remove_path(dirExists, files, io)
       IN  /\ dirExists' = r.exists
           /\ files' = r.files
           /\ intact' = (intact /\ r.ret.kind # "Ok")
    /\ UNCHANGED <<restVars, stVars, thVars, hist, base, pre, post>>

----------------------------------------------------------------------------
(* Bulk access and iteration *)

\* The Arcs listed from the last entry to the first.
storage_data_reversed(st) ==
    [i \in 1..Len(st.data) |-> Len(st.data) + 1 - i]

\* storage.data(): the Arc of every entry, cloned in the order of the Vec;
\* an Arc is named by the cell it points to.
storage_data(st) == [i \in 1..Len(st.data) |-> i]

\* storage.into_data_objects(): a DataObject on every entry, in that order.
into_data_objects(st) == [i \in 1..Len(st.data) |-> i]

\* A batch lookup that leaves the ids it does not find out of its result.
get_by_ids_found_only(st, ids) ==
    SelectSeq([k \in 1..Len(ids) |->
                  [id |-> Trim(ids[k]), res |-> get_by_id(st, Trim(ids[k]))]],
              LAMBDA x : x.res.ok)

\* storage.get_by_ids(ids): for every id, trimmed, the pair of the id and
\* the result of get_by_id.
get_by_ids(st, ids) ==
    [k \in 1..Len(ids) |->
        [id |-> Trim(ids[k]), res |-> get_by_id(st, Trim(ids[k]))]]

\* (&storage).into_iter(): a DataIter over storage.data(), index 0.
into_iter(st) ==
    [live |-> TRUE, data |-> storage_data(st), index |-> 0,
     yielded |-> <<>>, ended |-> FALSE, started |-> Len(st.data)]

\* An iterator that steps over every other item.
next_skipping(it) ==
    IF it.index < Len(it.data)
    THEN [some |-> TRUE, item |-> it.data[it.index + 1], index |-> it.index + 2]
    ELSE [some |-> FALSE, item |-> 0, index |-> it.index]

\* A next that reads the collection's entry list as it is now.
next_live(it) ==
    IF it.index < Len(data)
    THEN [some |-> TRUE, item |-> it.index + 1, index |-> it.index + 1]
    ELSE [some |-> FALSE, item |-> 0, index |-> it.index]

\* DataIter::next: the item at `index` (counted from 0) and index + 1, or
\* None past the end.
next(it) ==
    IF it.index < Len(it.data)
    THEN [some |-> TRUE, item |-> it.data[it.index + 1], index |-> it.index + 1]
    ELSE [some |-> FALSE, item |-> 0, index |-> it.index]

\* A thread starts `for object in &storage`.
IntoIter ==
    /\ stOpen /\ ~iter.live
    /\ iter' = into_iter(Storage)
    /\ UNCHANGED <<shown, ins, pkVars, dirVars, stVars, thVars, ghostVars,
                   twin>>

\* The loop asks for the next item.
IterNext ==
    /\ iter.live /\ ~iter.ended
    /\ LET n == next(iter)
       IN  iter' = [iter EXCEPT !.index = n.index,
                                !.yielded = IF n.some THEN Append(@, n.item)
                                            ELSE @,
                                !.ended = ~n.some]
    /\ UNCHANGED <<shown, ins, pkVars, dirVars, stVars, thVars, ghostVars,
                   twin>>

\* A thread works with a DataObject the iterator has yielded.
IterTake(t, c) ==
    /\ iter.live /\ pc[t] = "idle"
    /\ \E k \in DOMAIN iter.yielded : iter.yielded[k] = c
    /\ hnd' = [hnd EXCEPT ![t] = c]
    /\ pc' = [pc EXCEPT ![t] = "handle"]
    /\ UNCHANGED <<shown, ins, pkVars, dirVars, stVars, cnt, ghostVars, iter,
                   twin>>

\* The loop is over and the iterator is dropped.
IterDrop ==
    /\ iter.live /\ iter.ended
    /\ iter' = NoIter
    /\ UNCHANGED <<shown, ins, pkVars, dirVars, stVars, thVars, ghostVars,
                   twin>>

----------------------------------------------------------------------------
(* DataObject::update step by step, with a second Storage instance over    *)
(* the same directory: each instance has its own Arc<Mutex<T>> per record. *)

\* The thread that works with the second instance.
TwinThread == 2

OnTwin(t) == t = TwinThread /\ twin.hnd # 0

\* The record behind the handle a thread holds, and the holder of its mutex.
RecordOf(t) == IF OnTwin(t) THEN twin.data[twin.hnd] ELSE data[hnd[t]]

HolderOf(t) == IF OnTwin(t) THEN twin.lock[twin.hnd] ELSE lock[hnd[t]]

\* self.data.lock().unwrap() through the handle of thread t.
handle_lock(t) ==
    IF OnTwin(t)
    THEN IF twin.lock[twin.hnd] # 0 THEN "blocked" ELSE "locked"
    ELSE lock_unwrap(t, hnd[t])

\* The mutex behind the handle of thread t goes to `holder` (0: released).
SetHolder(t, holder) ==
    IF OnTwin(t)
    THEN /\ twin' = [twin EXCEPT !.lock[twin.hnd] = holder]
         /\ UNCHANGED lock
    ELSE /\ lock' = [lock EXCEPT ![hnd[t]] = holder]
         /\ UNCHANGED twin

\* A second load_storage(path) while the first instance is in use.
OpenTwin(names) ==
    /\ stOpen /\ ~twin.open /\ pc[TwinThread] = "idle"
    /\ names \in Orders(DOMAIN files)
    /\ LET r == load_storage(dirExists, files, names, "ok", "ok")
       IN  twin' = IF r.ret.kind = "Ok"
                   THEN [open |-> TRUE, data |-> r.st.data,
                         lookup |-> r.st.lookup,
                         lock |-> [i \in 1..Len(r.st.data) |-> 0], hnd |-> 0]
                   ELSE twin
    /\ UNCHANGED <<shown, ins, pkVars, iter, dirVars, stVars, thVars, ghostVars>>

\* get_by_id on the second instance.
TwinGetById(query) ==
    /\ twin.open /\ pc[TwinThread] = "idle"
    /\ LET r == get_by_id([data |-> twin.data, lookup |-> twin.lookup], query)
       IN  /\ r.ok
           /\ twin' = [twin EXCEPT !.hnd = r.cell]
           /\ pc' = [pc EXCEPT ![TwinThread] = "handle"]
    /\ UNCHANGED <<shown, ins, pkVars, iter, dirVars, stVars, hnd, cnt,
                   ghostVars>>

\* A thread takes the k-th DataObject of storage.into_data_objects().
TakeDataObject(t, k) ==
    /\ stOpen /\ pc[t] = "idle"
    /\ k \in DOMAIN into_data_objects(Storage)
    /\ hnd' = [hnd EXCEPT ![t] = into_data_objects(Storage)[k]]
    /\ pc' = [pc EXCEPT ![t] = "handle"]
    /\ UNCHANGED <<restVars, dirVars, stVars, cnt, ghostVars>>

\* The DataObject of either instance goes out of scope.
ReleaseHandle(t) ==
    /\ pc[t] = "handle"
    /\ pc' = [pc EXCEPT ![t] = "idle"]
    /\ hnd' = [hnd EXCEPT ![t] = 0]
    /\ twin' = IF OnTwin(t) THEN [twin EXCEPT !.hnd = 0] ELSE twin
    /\ UNCHANGED <<shown, ins, pkVars, iter, dirVars, stVars, cnt, ghostVars>>

\* lock().unwrap() of update's first statement ("handle") or of its second
\* ("applied") returns the guard.
UpdateLock(t) ==
    /\ pc[t] \in {"handle", "applied"}
    /\ pc[t] = "handle" => cnt[t] < MaxUpdates
    /\ handle_lock(t) = "locked"
    /\ SetHolder(t, t)
    /\ pc' = [pc EXCEPT ![t] = IF pc[t] = "handle" THEN "locked_f"
                                ELSE "locked_save"]
    /\ UNCHANGED <<shown, ins, pkVars, iter, dirVars, stOpen, data, lookup, poisoned,
                   opened, opens, hnd, cnt, ghostVars>>

\* f runs on the locked value, and the guard is dropped at the end of the
\* statement.
UpdateRun(t, f) ==
    /\ pc[t] = "locked_f"
    /\ IF OnTwin(t)
       THEN /\ twin' = [twin EXCEPT !.data[twin.hnd].age = Apply(f, @),
                                    !.lock[twin.hnd] = 0]
            /\ UNCHANGED <<data, lock>>
       ELSE /\ data' = [data EXCEPT ![hnd[t]].age = Apply(f, @)]
            /\ lock' = [lock EXCEPT ![hnd[t]] = 0]
            /\ UNCHANGED twin
    /\ pc' = [pc EXCEPT ![t] = "applied"]
    /\ UNCHANGED <<shown, ins, pkVars, iter, dirVars, stOpen, lookup, poisoned, opened,
                   opens, hnd, cnt, ghostVars>>

\* save_storage_object under the guard: File::create truncates the file.
SaveCreate(t) ==
    /\ pc[t] = "locked_save"
    /\ dirExists
    /\ files' = WriteFile(files, PathOf(RecordOf(t).id), <<>>)
    /\ pc' = [pc EXCEPT ![t] = "writing"]
    /\ UNCHANGED <<restVars, dirExists, stVars, hnd, cnt, ghostVars>>

\* The serialized record is written, the file is closed, the guard is
\* dropped and update returns.
SaveWrite(t) ==
    /\ pc[t] = "writing"
    /\ files' = WriteFile(files, PathOf(RecordOf(t).id),
                          serialize_object(RecordOf(t)))
    /\ SetHolder(t, 0)
    /\ pc' = [pc EXCEPT ![t] = "handle"]
    /\ cnt' = [cnt EXCEPT ![t] = @ + 1]
    /\ UNCHANGED <<shown, ins, pkVars, iter, dirExists, stOpen, data, lookup, poisoned,
                   opened, opens, hnd, ghostVars>>

----------------------------------------------------------------------------
(* add_to_storage step by step: the collection-wide lock is held from the  *)
(* id check to the append.                                                 *)

NoIns ==
    [holder |-> 0, rec |-> [t \in Threads |-> NoRecord],
     ret |-> [t \in Threads |-> StNone]]

\* A collection lock that is granted whoever holds it.
collection_lock_never_waits(t) == "locked"

\* Taking the collection-wide lock: granted when no thread holds it.
collection_lock(t) == IF ins.holder # 0 THEN "blocked" ELSE "locked"

\* storage.add_to_storage(rec) begins: the thread takes the collection lock.
InsertLock(t, rec) ==
    /\ stOpen /\ pc[t] = "idle"
    /\ ins.ret[t] = StNone
    /\ collection_lock(t) = "locked"
    /\ ins' = [ins EXCEPT !.holder = t, !.rec[t] = rec]
    /\ pc' = [pc EXCEPT ![t] = "inserting"]
    /\ UNCHANGED <<pkVars, iter, twin, shown, dirVars, stVars, hnd, cnt,
                   ghostVars>>

\* The id check: an id that is present is rejected and the lock released.
InsertCheck(t) ==
    /\ pc[t] = "inserting"
    /\ IF ins.rec[t].id \in DOMAIN lookup
       THEN /\ ins' = [ins EXCEPT !.holder = IF @ = t THEN 0 ELSE @,
                                  !.ret[t] = StErr(IdTakenError)]
            /\ pc' = [pc EXCEPT ![t] = "idle"]
       ELSE /\ pc' = [pc EXCEPT ![t] = "insert_checked"]
            /\ UNCHANGED ins
    /\ UNCHANGED <<pkVars, iter, twin, shown, dirVars, stVars, hnd, cnt,
                   ghostVars>>

\* The record is persisted to its file, the cell appended and entered in
\* the lookup table, and the lock released.
InsertAppend(t) ==
    /\ pc[t] = "insert_checked"
    /\ LET a == append_entry(Storage, files, dirExists, ins.rec[t], "ok")
           grown == Len(a.st.data) > Len(data)
       IN  /\ data' = a.st.data
           /\ lookup' = a.st.lookup
           /\ files' = a.files
           /\ lock' = IF grown THEN Append(lock, 0) ELSE lock
           /\ poisoned' = IF grown THEN Append(poisoned, FALSE) ELSE poisoned
           /\ hist' = IF grown THEN Append(hist, <<>>) ELSE hist
           /\ base' = IF grown THEN Append(base, ins.rec[t]) ELSE base
           /\ intact' = (intact /\ (a.ret.kind = "Ok" \/ a.files = files))
           /\ ins' = [ins EXCEPT !.holder = IF @ = t THEN 0 ELSE @,
                                 !.ret[t] = a.ret]
    /\ pc' = [pc EXCEPT ![t] = "idle"]
    /\ UNCHANGED <<pkVars, iter, twin, shown, dirExists, stOpen, opened,
                   opens, hnd, cnt, pre, post>>

----------------------------------------------------------------------------
(* Error values and their texts *)

\* The variants that carry a message.
WithMessage ==
    {"InternalError", "SerializeError", "DeserializeError", "IOError"}

\* Messages of errors (the tests use "test error", "test" and "Ooo").
Messages == {"", "test", "test error", "Ooo"}

\* The values of the two error types, Error and PackError.
ErrorValues ==
    {[ty |-> ty, variant |-> v, msg |-> m] :
        ty \in {"Error", "PackError"}, v \in WithMessage, m \in Messages}
    \cup {[ty |-> ty, variant |-> v, msg |-> ""] :
             ty \in {"Error", "PackError"},
             v \in {"ObjectNotFound", "PathNotFound"}}

\* The text #[derive(Debug)] would give.
Debug_derived(e) ==
    IF e.variant \in WithMessage
    THEN e.variant \o "(\"" \o e.msg \o "\")"
    ELSE e.variant

\* impl fmt::Display for Error
Error_Display(e) ==
    CASE e.variant = "InternalError" -> "Internal error: " \o e.msg
      [] e.variant = "ObjectNotFound" -> "Storage object not found in storage."
      [] e.variant = "PathNotFound" -> "Path not found"
      [] OTHER -> "Unknown error"

\* impl fmt::Debug for Error
Error_Debug(e) ==
    CASE e.variant = "InternalError" -> "Internal error: " \o e.msg
      [] e.variant = "ObjectNotFound" -> "Storage object not found in storage."
      [] e.variant = "PathNotFound" -> "Path not found"
      [] OTHER -> "Unknown error"

\* impl fmt::Display for PackError
PackError_Display(e) ==
    CASE e.variant = "InternalError" -> "Internal error: " \o e.msg
      [] e.variant = "SerializeError" ->
             "Pack serialization error: " \o e.msg
      [] e.variant = "DeserializeError" ->
             "Pack deserialization error: " \o e.msg
      [] e.variant = "IOError" -> "Pack IO error: " \o e.msg
      [] e.variant = "PathNotFound" -> "Path not found"
      [] e.variant = "ObjectNotFound" -> "Storage object not found in storage."
      [] OTHER -> "Unknown error"

\* impl fmt::Debug for PackError
PackError_Debug(e) ==
    CASE e.variant = "InternalError" -> "Internal error: " \o e.msg
      [] e.variant = "SerializeError" ->
             "Pack serialization error: " \o e.msg
      [] e.variant = "DeserializeError" ->
             "Pack deserialization error: " \o e.msg
      [] e.variant = "IOError" -> "Pack IO error: " \o e.msg
      [] e.variant = "PathNotFound" -> "Path not found"
      [] e.variant = "ObjectNotFound" -> "Storage object not found in storage."
      [] OTHER -> "Unknown error"

\* format!("{}", e)
Display(e) ==
    IF e.ty = "Error" THEN Error_Display(e) ELSE PackError_Display(e)

\* format!("{:?}", e)
Debug(e) ==
    IF e.ty = "Error" THEN Error_Debug(e) ELSE PackError_Debug(e)

\* An error value before it is formatted: no text of either kind yet.
Unformatted(e) == [err |-> e, display |-> <<>>, debug |-> <<>>]

NoShown == Unformatted([ty |-> "Error", variant |-> "ObjectNotFound",
                        msg |-> ""])

\* format!("{}", err)
FormatDisplay ==
    /\ shown.display = <<>>
    /\ shown' = [shown EXCEPT !.display = <<Display(shown.err)>>]
    /\ UNCHANGED <<pkVars, dirVars, stVars, thVars, ghostVars, iter, twin,
                   ins>>

\* format!("{:?}", err)
FormatDebug ==
    /\ shown.debug = <<>>
    /\ shown' = [shown EXCEPT !.debug = <<Debug(shown.err)>>]
    /\ UNCHANGED <<pkVars, dirVars, stVars, thVars, ghostVars, iter, twin,
                   ins>>

----------------------------------------------------------------------------
(* Specifications *)

InitIdle ==
    /\ stOpen = FALSE
    /\ data = <<>>
    /\ lookup = [i \in {} |-> 0]
    /\ lock = <<>>
    /\ poisoned = <<>>
    /\ pc = [t \in Threads |-> "idle"]
    /\ hnd = [t \in Threads |-> 0]
    /\ cnt = [t \in Threads |-> 0]
    /\ opened = StNone
    /\ opens = 0
    /\ hist = <<>>
    /\ base = <<>>
    /\ pre = [t \in Threads |-> NoRecord]
    /\ post = [t \in Threads |-> NoRecord]
    /\ iter = NoIter
    /\ twin = NoTwin
    /\ ins = NoIns

\* The record cell alone.
InitPack ==
    /\ InitPackVars
    /\ InitIdle
    /\ dirExists = FALSE
    /\ files = NoFiles
    /\ intact = TRUE
    /\ shown = NoShown

\* The collection: its directory is absent or empty.
Init ==
    /\ InitPackVars
    /\ InitIdle
    /\ dirExists \in BOOLEAN
    /\ files = NoFiles
    /\ intact = TRUE
    /\ shown = NoShown

Next ==
    \/ \E names \in Orders(DOMAIN files), mk \in IoOutcomes,
          io \in WriteOutcomes : LoadStorage(names, mk, io)
    \/ \E t \in Threads, id \in Ids, age \in InsertAges, io \in WriteOutcomes :
          AddToStorage(t, Record(id, age), io)
    \/ \E t \in Threads, q \in Queries : GetById(t, q)
    \/ \E t \in Threads : DropHandle(t)
    \/ \E t \in Threads : Get(t)
    \/ \E t \in Threads : Exec(t)
    \/ \E t \in Threads : GetDataRef(t)
    \/ \E t \in Threads : DropDataRef(t)
    \/ \E t \in Threads, f \in Updates : UpdateApply(t, f)
    \/ \E t \in Threads, io \in WriteOutcomes : UpdateSave(t, io)
    \/ \E t \in Threads, io \in IoOutcomes : Remove(t, io)

Spec == Init /\ [][Next]_vars

NextPackCommon ==
    \/ \E io \in IoOutcomes : PackLoadOrInit(io)
    \/ PackDrop
    \/ PackAsMut
    \/ \E v \in GuardValues : GuardWrite(v)
    \/ \E e \in ExitPaths, io \in IoOutcomes : GuardDrop(e, io)

NextPack ==
    \/ NextPackCommon
    \/ \E f \in Closures : PackUpdate(f)

NextPackFault ==
    \/ NextPackCommon
    \/ \E f \in Closures, saved \in SaveResults : PackUpdateSaved(f, saved)

\* The collection opened once, with no failing file operation: thread 1
\* gets its handles from get_by_id, thread 2 from the iterator.
NextIter ==
    \/ \E names \in Orders(DOMAIN files) :
          ~stOpen /\ LoadStorage(names, "ok", "ok")
    \/ \E t \in Threads, id \in Ids, age \in InsertAges :
          AddToStorage(t, Record(id, age), "ok")
    \/ \E q \in Queries : GetById(1, q)
    \/ IntoIter
    \/ IterNext
    \/ \E c \in Cells : IterTake(2, c)
    \/ IterDrop
    \/ \E t \in Threads : DropHandle(t)
    \/ \E t \in Threads : Get(t)
    \/ \E t \in Threads, f \in Updates : UpdateApply(t, f)
    \/ \E t \in Threads : UpdateSave(t, "ok")

SpecIter == Init /\ [][NextIter]_vars

\* The loop driving an iterator keeps asking for the next item.
SpecIterLive == Init /\ [][NextIter]_vars /\ WF_vars(IterNext)

\* Updates step by step on one or two instances: the collection is opened
\* once, records are inserted with age 1 and updated with `inc`, and no
\* file operation fails.
NextLocks ==
    \/ \E names \in Orders(DOMAIN files) :
          ~stOpen /\ LoadStorage(names, "ok", "ok")
    \/ \E t \in Threads, id \in Ids : AddToStorage(t, Record(id, 1), "ok")
    \/ \E names \in Orders(DOMAIN files) : OpenTwin(names)
    \/ \E q \in Queries : TwinGetById(q)
    \/ \E t \in Threads, k \in 1..MaxEntries : TakeDataObject(t, k)
    \/ \E t \in Threads : ReleaseHandle(t)
    \/ \E t \in Threads : UpdateLock(t)
    \/ \E t \in Threads : UpdateRun(t, "inc")
    \/ \E t \in Threads : SaveCreate(t)
    \/ \E t \in Threads : SaveWrite(t)

SpecLocks == Init /\ [][NextLocks]_vars

SpecPack == InitPack /\ [][NextPack]_vars

SpecPackFault == InitPack /\ [][NextPackFault]_vars

\* One collection, opened once, into which each thread inserts one record
\* step by step, while records are looked up.
NextInsert ==
    \/ \E names \in Orders(DOMAIN files) :
          ~stOpen /\ LoadStorage(names, "ok", "ok")
    \/ \E t \in Threads, id \in Ids, age \in InsertAges :
          InsertLock(t, Record(id, age))
    \/ \E t \in Threads : InsertCheck(t)
    \/ \E t \in Threads : InsertAppend(t)
    \/ \E t \in Threads, q \in Queries : GetById(t, q)
    \/ \E t \in Threads : DropHandle(t)

SpecInsert == Init /\ [][NextInsert]_vars

\* An error value of either type, formatted both ways.
InitFmt ==
    /\ InitPackVars
    /\ InitIdle
    /\ dirExists = FALSE
    /\ files = NoFiles
    /\ intact = TRUE
    /\ shown \in {Unformatted(e) : e \in ErrorValues}

NextFmt ==
    \/ FormatDisplay
    \/ FormatDebug

SpecFmt == InitFmt /\ [][NextFmt]_vars

----------------------------------------------------------------------------
(* Claims about the record cell *)

\* C1: when the save inside update(f) fails, update returns that error and
\* the cell's value is the value it held before the call.
C1_UpdateRollsBack ==
    (pkOp.op = "update" /\ ~pkOp.saved.ok) =>
        /\ pkData = pkOp.pre
        /\ pkOp.ret = Err(pkOp.saved.err)

\* A failed save met an update whose closure had changed the value.
C1_Witness ==
    /\ pkOp.op = "update" /\ ~pkOp.saved.ok
    /\ pkOp.pre # 0
    /\ Apply(pkOp.f, pkOp.pre) # pkOp.pre

\* C2: with no update or guard in flight the backing file decodes to the
\* in-memory value, and a successful update returns f's result and leaves
\* memory and file holding the mutated value.
C2_FileMatchesMemory ==
    /\ (pkLive /\ ~pkGuard) => load_pack(pkFile) = Ok(pkData)
    /\ (pkOp.op = "update" /\ pkOp.ret.ok) =>
          /\ pkOp.ret = Ok(Res(pkOp.f, pkOp.pre))
          /\ pkData = Apply(pkOp.f, pkOp.pre)
          /\ load_pack(pkFile) = Ok(Apply(pkOp.f, pkOp.pre))

----------------------------------------------------------------------------
(* Claims about the collection and its shared records *)

RECURSIVE ApplyAll(_, _)
ApplyAll(fs, v) ==
    IF fs = <<>> THEN v ELSE ApplyAll(Tail(fs), Apply(Head(fs), v))

\* The ids of the entries of a storage.
EntryIds(st) == {st.data[i].id : i \in 1..Len(st.data)}

\* The record the file of cell c decodes to.
Persisted(c) ==
    IF PathOf(data[c].id) \in DOMAIN files
    THEN deserialize_object(files[PathOf(data[c].id)])
    ELSE deserialize_object(<<>>)

\* Every thread has made all its update calls, they have returned, and all
\* of them were made on cell c of a directory that is still there.
AllUpdatesDone(c) ==
    /\ stOpen /\ dirExists
    /\ \A t \in Threads : pc[t] \in {"idle", "handle", "guard"}
    /\ \A t \in Threads : cnt[t] = MaxUpdates
    /\ Len(hist[c]) = Cardinality(Threads) * MaxUpdates

\* C3: once K threads have each returned from N updates of one record, the
\* value in memory and the value decoded from its file are the result of
\* applying all K*N closures one after the other in one order.
C3_NoLostUpdates ==
    \A c \in Cells :
        AllUpdatesDone(c) =>
            /\ data[c].age = ApplyAll(hist[c], base[c].age)
            /\ Persisted(c).ok
            /\ Persisted(c).rec = data[c]

\* Two threads have updated one record with closures that do not commute.
C3_Witness ==
    \E c \in Cells :
        /\ AllUpdatesDone(c)
        /\ \E i, j \in DOMAIN hist[c] : hist[c][i] = "inc" /\ hist[c][j] = "dbl"

\* C4: between an update's mutation and its persist no other update of the
\* record applies its mutation: the value the update is about to write is
\* the value its own closure left.
C4_NoMutationBeforePersist ==
    \A t \in Threads : pc[t] = "applied" => data[hnd[t]] = post[t]

\* C5: an insert whose id is present fails with IDTaken and leaves the
\* number of entries unchanged, and no two entries ever have the same id.
C5_DuplicateInsertIsIDTaken ==
    /\ stOpen =>
          \A id \in EntryIds(Storage), age \in InsertAges, io \in WriteOutcomes :
              LET a == add_to_storage(Storage, files, dirExists,
                                      Record(id, age), io)
              IN  /\ a.ret = StErr("IDTaken")
                  /\ Len(a.st.data) = Len(data)
    /\ \A i, j \in Cells : data[i].id = data[j].id => i = j

\* C6 as stated: every inserted id is found, with a record of that id, and
\* every string never inserted gives ObjectNotFound.
C6_InsertedIdsAreFound ==
    stOpen =>
        \A q \in Queries :
            LET r == get_by_id(Storage, q)
            IN  IF q \in EntryIds(Storage)
                THEN r.ok /\ data[r.cell].id = q
                ELSE ~r.ok /\ r.err = "ObjectNotFound"

\* C6 amended: a query is answered for its trimmed form: when that is the
\* id of an entry the handle is on the record with that id, otherwise the
\* result is ObjectNotFound; so every inserted id that has no leading or
\* trailing whitespace is found under itself.
C6_TrimmedIdsAreFound ==
    stOpen =>
        \A q \in Queries :
            LET r == get_by_id(Storage, q)
            IN  /\ IF Trim(q) \in EntryIds(Storage)
                   THEN r.ok /\ data[r.cell].id = Trim(q)
                   ELSE ~r.ok /\ r.err = "ObjectNotFound"
                /\ (q \in EntryIds(Storage) /\ Trim(q) = q) =>
                       r.ok /\ data[r.cell].id = q

\* Records "a" and " a" are both stored and " a" is looked up.
C6_Witness ==
    /\ stOpen
    /\ EntryIds(Storage) = {<<"a">>, <<" ", "a">>}
    /\ get_by_id(Storage, <<" ", "a">>).ok

\* No update is between its mutation and its persist, no write has failed
\* and the directory has not been removed.
Settled ==
    /\ stOpen /\ dirExists /\ intact
    /\ \A t \in Threads : pc[t] # "applied"

\* What a fresh load_storage over the directory yields when nothing fails.
Reopened(names) == load_storage(dirExists, files, names, "ok", "ok")

\* The record of the entry with this id.
EntryOf(st, id) ==
    LET i == CHOOSE i \in 1..Len(st.data) : st.data[i].id = id
    IN  st.data[i]

\* C7 as stated: a fresh instance over the directory has the same ids, and
\* get_by_id of each id gives the value last persisted for it.
C7_ReopenLooksUpEveryId ==
    Settled =>
        \A names \in Orders(DOMAIN files) :
            LET r == Reopened(names)
            IN  /\ r.ret = StOk
                /\ EntryIds(r.st) = EntryIds(Storage)
                /\ \A c \in Cells :
                       LET g == get_by_id(r.st, data[c].id)
                       IN  /\ g.ok
                           /\ r.st.data[g.cell] = data[c]
                           /\ data[c].age = ApplyAll(hist[c], base[c].age)

\* C7 amended: a fresh instance over the directory has the same ids, one
\* entry per id, each holding the value last persisted for it; get_by_id
\* gives that value for every id without leading or trailing whitespace.
C7_ReopenKeepsEveryRecord ==
    Settled =>
        \A names \in Orders(DOMAIN files) :
            LET r == Reopened(names)
            IN  /\ r.ret = StOk
                /\ EntryIds(r.st) = EntryIds(Storage)
                /\ Len(r.st.data) = Len(data)
                /\ \A c \in Cells :
                       LET g == get_by_id(r.st, data[c].id)
                       IN  /\ EntryOf(r.st, data[c].id) = data[c]
                           /\ data[c].age = ApplyAll(hist[c], base[c].age)
                           /\ Trim(data[c].id) = data[c].id =>
                                  g.ok /\ r.st.data[g.cell] = data[c]

\* A collection opened a second time holds two records, one of them
\* updated since.
C7_Witness ==
    /\ Settled /\ opens = 2
    /\ Len(data) = 2
    /\ \E c \in Cells : hist[c] # <<>> /\ data[c].age # base[c].age

\* The save of an update fails: the directory is gone or a file step fails.
SaveFails(io) == ~dirExists \/ io # "ok"

\* C9: an update whose persist fails does not abort its thread, the value
\* in memory is rolled back, and the record stays usable.
C9_FailedUpdateIsRecoverable ==
    [][\A t \in Threads, io \in WriteOutcomes :
          (/\ UpdateSave(t, io)
           /\ lock_unwrap(t, hnd[t]) = "locked"
           /\ SaveFails(io)) =>
              /\ pc'[t] # "panicked"
              /\ ~poisoned'[hnd[t]]
              /\ data'[hnd[t]] = pre[t]]_vars

\* C10: opening a directory in which some file does not decode returns
\* DeserializeError, wherever the file is in the listing.
C10_BadFileIsDeserializeError ==
    (dirExists /\ \E n \in DOMAIN files : ~deserialize_object(files[n]).ok) =>
        \A names \in Orders(DOMAIN files) :
            Reopened(names).ret = StErr("DeserializeError")

----------------------------------------------------------------------------
(* Claims about the collection's table, its directory and its inserts *)

\* The table and the entries of a storage agree.
TableAgrees(st) ==
    /\ DOMAIN st.lookup = EntryIds(st)
    /\ \A i, j \in 1..Len(st.data) : st.data[i].id = st.data[j].id => i = j
    /\ \A id \in DOMAIN st.lookup :
           /\ st.lookup[id] \in 0..(Len(st.data) - 1)
           /\ st.data[st.lookup[id] + 1].id = id

\* C11: in every state of the collection, after failed inserts too, every
\* entry's id is a key of the lookup table exactly once, every key is the
\* id of exactly one entry, and the position it maps to is in bounds and
\* holds the entry with that id.
C11_LookupTableConsistent == TableAgrees(Storage)

\* An insert has failed in its file write, leaving its file behind, in a
\* collection that holds a record of the other id.
C11_Witness ==
    /\ stOpen /\ dirExists
    /\ Len(data) = 1
    /\ \E id \in Ids :
           /\ id \notin EntryIds(Storage)
           /\ PathOf(id) \in DOMAIN files

\* C12: while the directory is there, it holds exactly the files named
\* <id>.yml of the entries, one per entry and none without an entry.
C12_OneFilePerEntry ==
    (stOpen /\ dirExists) =>
        DOMAIN files = {PathOf(data[c].id) : c \in Cells}

----------------------------------------------------------------------------
(* Claims about the per-record lock and the reads *)

C20_ReadCannotFail ==
    \A t \in Threads :
        (pc[t] = "handle" /\ lock_unwrap(t, hnd[t]) # "blocked") =>
            /\ get(t, hnd[t]) = StVal(data[hnd[t]].age)
            /\ exec(t, hnd[t]) = StVal(data[hnd[t]].age)

----------------------------------------------------------------------------
(* Claims about handles and iteration *)

\* The elements of a sequence.
Range(q) == {q[k] : k \in DOMAIN q}

\* The id lists passed to get_by_ids.
QuerySeqs == {<<q1, q2>> : q1 \in Queries, q2 \in Queries}

\* The cells of all the handles there are and of all that the collection
\* would hand out now: by get_by_id, get_by_ids, data(), into_data_objects,
\* the iterator, and those the threads hold.
AllHandles ==
    {get_by_id(Storage, q).cell :
        q \in {x \in Queries : get_by_id(Storage, x).ok}}
    \cup UNION {{r.res.cell : r \in {x \in Range(get_by_ids(Storage, ids)) :
                                        x.res.ok}} : ids \in QuerySeqs}
    \cup Range(into_data_objects(Storage))
    \cup Range(storage_data(Storage))
    \cup Range(iter.yielded)
    \cup {hnd[t] : t \in {u \in Threads : hnd[u] # 0}}

\* C15: the handles on a record of one id, however they were obtained, are
\* on one cell, and a mutation applied by update through one handle is what
\* a read through every handle of that record gives from then on.
C15_HandlesShareOneValue ==
    /\ [](stOpen =>
            \A c, d \in AllHandles :
                c \in Cells /\ (data[c].id = data[d].id => c = d))
    /\ [][\A t \in Threads, f \in Updates :
             (UpdateApply(t, f) /\ lock_unwrap(t, hnd[t]) = "locked") =>
                 \A u \in Threads :
                     hnd[u] = hnd[t] =>
                         get(u, hnd[u])' =
                             StVal(Apply(f, data[hnd[t]].age))]_vars

\* A thread with a handle from get_by_id and a thread with a handle from
\* the iterator are on the same record, which has been updated.
C15_Witness ==
    /\ pc[1] = "handle" /\ pc[2] = "handle"
    /\ hnd[1] = hnd[2]
    /\ hist[hnd[1]] # <<>>
    /\ data[hnd[1]].age # base[hnd[1]].age

\* C18: an iterator started on a collection of M records has, when it
\* reports the end, yielded exactly M items, the records one by one with
\* none repeated and none skipped, and it reports the end after finitely
\* many steps.
C18_IterationVisitsEachOnce ==
    /\ [](iter.ended =>
            /\ Len(iter.yielded) = iter.started
            /\ \A c \in 1..iter.started :
                   Cardinality({k \in DOMAIN iter.yielded :
                                   iter.yielded[k] = c}) = 1)
    /\ [](iter.live => Len(iter.yielded) <= iter.started)
    /\ (iter.live ~> iter.ended)

\* An iteration over two records has ended.
C18_Witness ==
    /\ iter.live /\ iter.ended
    /\ iter.started = 2

\* The ids of the entries, in the order of the entries.
IdsInOrder(q) == [i \in 1..Len(q) |-> q[i].id]

\* C19: within a collection the entries stay in the order of their
\* successful inserts: an insert puts its record last, and no insert,
\* rejected insert or update moves an entry or changes its position in the
\* table; data() and the iterator list the entries in that order.
C19_InsertionOrderKept ==
    /\ [](stOpen =>
            /\ storage_data(Storage) = [i \in Cells |-> i]
            /\ \A k \in DOMAIN iter.yielded : iter.yielded[k] = k)
    /\ [][(stOpen /\ opens' = opens) =>
             /\ Len(data') >= Len(data)
             /\ SubSeq(IdsInOrder(data'), 1, Len(data)) = IdsInOrder(data)
             /\ \A c \in Cells : lookup'[data[c].id] = lookup[data[c].id]
             /\ \A t \in Threads, id \in Ids, age \in InsertAges :
                    (AddToStorage(t, Record(id, age), "ok")
                       /\ id \notin DOMAIN lookup) =>
                        data' = Append(data, Record(id, age))]_vars

\* Two records were inserted, " a" before "a", the first has been updated
\* since, and an iteration has listed both.
C19_Witness ==
    /\ stOpen /\ opens = 1
    /\ IdsInOrder(data) = << <<" ", "a">>, <<"a">> >>
    /\ hist[1] # <<>>
    /\ iter.ended /\ iter.yielded = <<1, 2>>

----------------------------------------------------------------------------
(* Claims about updates step by step *)

\* An update of thread t is in progress: its closure or its persist has the
\* record locked, or it is between the two.
InProgress(t) == pc[t] \in {"locked_f", "applied", "locked_save", "writing"}

\* Threads t and u hold handles on one cell of one instance.
SameCell(t, u) ==
    /\ OnTwin(t) = OnTwin(u)
    /\ hnd[t] = hnd[u]

\* C14: a thread about to take the lock of its record, for either statement
\* of update, waits only while another thread working on that same record
\* has it locked; while an update of a record of another id is in progress,
\* persist included, it does not wait.
C14_OtherIdsNeverBlock ==
    \A t \in Threads :
        pc[t] \in {"handle", "applied"} =>
            /\ handle_lock(t) = "blocked" =>
                   \E u \in Threads \ {t} : SameCell(t, u) /\ HolderOf(t) = u
            /\ \A u \in Threads \ {t} :
                   (InProgress(u) /\ RecordOf(u).id # RecordOf(t).id) =>
                       handle_lock(t) # "blocked"

\* The persists of two updates, of records of two different ids of one
\* collection, are in progress at once.
C14_Witness ==
    /\ pc[1] = "writing" /\ pc[2] = "writing"
    /\ ~OnTwin(2)
    /\ data[hnd[1]].id # data[hnd[2]].id

\* The file a thread's persist writes.
WritesTo(t) == PathOf(RecordOf(t).id)

----------------------------------------------------------------------------
(* Records persisted in an older shape *)

\* The tests' User0, the record of an earlier version: old_id and one field.
User0(id, age) == [old_id |-> id, old_age |-> age]

NoUser0 == User0(<<>>, 0)

\* serialize_object of a User0: the fields under their old names.
serialize_object0(rec0) ==
    <<"---", <<"old_id", rec0.old_id>>, <<"old_age", rec0.old_age>>>>

\* deserialize_object::<User0>
deserialize_object0(bytes) ==
    IF /\ Len(bytes) = 3
       /\ bytes[1] = "---"
       /\ Len(bytes[2]) = 2 /\ bytes[2][1] = "old_id"
       /\ Len(bytes[3]) = 2 /\ bytes[3][1] = "old_age"
    THEN [ok |-> TRUE, rec |-> User0(bytes[2][2], bytes[3][2]), err |-> "none"]
    ELSE [ok |-> FALSE, rec |-> NoUser0, err |-> "DeserializeError"]

\* User0::try_from: decode, DeserializeError("Ooo") otherwise.
User0_try_from(bytes) ==
    LET d == deserialize_object0(bytes)
    IN  IF d.ok THEN d
        ELSE [ok |-> FALSE, rec |-> NoUser0, err |-> "DeserializeError"]

\* From<User0> for User: every field under its new name.
From_User0(rec0) == Record(rec0.old_id, rec0.old_age)

\* User::try_from: decode as a User; when that fails decode as a User0 and
\* convert, and return the error of that attempt when it fails too.
User_try_from(bytes) ==
    LET d == deserialize_object(bytes)
    IN  IF d.ok THEN d
        ELSE LET d0 == User0_try_from(bytes)
             IN  IF d0.ok
                 THEN [ok |-> TRUE, rec |-> From_User0(d0.rec), err |-> "none"]
                 ELSE [ok |-> FALSE, rec |-> NoRecord, err |-> d0.err]

\* A program of the earlier version opens the directory as a collection of
\* User0 and adds a record to it, before the collection of User is opened.
OldStorageAdd(rec0) ==
    /\ ~stOpen /\ opens = 0
    /\ PathOf(rec0.old_id) \notin DOMAIN files
    /\ Cardinality(DOMAIN files) < MaxEntries
    /\ dirExists' = manage_path(dirExists, "ok").exists
    /\ files' = WriteFile(files, PathOf(rec0.old_id), serialize_object0(rec0))
    /\ UNCHANGED <<restVars, stVars, thVars, ghostVars>>

\* A directory written by the earlier version, or by this one, then opened
\* and used; no file operation fails.
NextMigrate ==
    \/ \E id \in Ids, age \in InsertAges : OldStorageAdd(User0(id, age))
    \/ \E names \in Orders(DOMAIN files) : LoadStorage(names, "ok", "ok")
    \/ \E t \in Threads, id \in Ids, age \in InsertAges :
          AddToStorage(t, Record(id, age), "ok")
    \/ \E t \in Threads, q \in Queries : GetById(t, q)
    \/ \E t \in Threads : DropHandle(t)
    \/ \E t \in Threads : Get(t)
    \/ \E t \in Threads, f \in Updates : UpdateApply(t, f)
    \/ \E t \in Threads : UpdateSave(t, "ok")

SpecMigrate == Init /\ [][NextMigrate]_vars

\* C21: opening a directory loads every file through the record type's
\* upgrade hook: a file in the older shape becomes an entry with the same
\* id and field values, files in the current shape load as they are, and
\* the open returns DeserializeError only when the hook fails on a file.
C21_OldShapeIsUpgraded ==
    dirExists =>
        \A names \in Orders(DOMAIN files) :
            LET r == Reopened(names)
            IN  IF \A n \in DOMAIN files : User_try_from(files[n]).ok
                THEN /\ r.ret = StOk
                     /\ Len(r.st.data) = Len(names)
                     /\ \A k \in 1..Len(names) :
                            r.st.data[k] = User_try_from(files[names[k]]).rec
                ELSE r.ret = StErr("DeserializeError")

----------------------------------------------------------------------------
(* Claims about failures that cannot be returned *)

----------------------------------------------------------------------------
(* Claims about opening, bulk lookup and error texts *)

\* Every file of the directory decodes as a record of the collection.
AllDecode == \A n \in DOMAIN files : deserialize_object(files[n]).ok

\* C23: an open that meets no failing file operation and no undecodable
\* file succeeds and leaves the directory in place; on a path that did not
\* exist the collection has zero entries, and on an existing directory it
\* has exactly one entry per file listed, holding the record of that file
\* and entered in the lookup table under its id.
C23_OpenLoadsOneEntryPerFile ==
    [][\A names \in Orders(DOMAIN files) :
          (LoadStorage(names, "ok", "ok") /\ AllDecode) =>
              /\ opened' = StOk /\ stOpen' /\ dirExists'
              /\ ~dirExists => data' = <<>> /\ DOMAIN lookup' = {}
              /\ Len(data') = Cardinality(DOMAIN files)
              /\ \A k \in 1..Len(names) :
                     /\ data'[k] = deserialize_object(files[names[k]]).rec
                     /\ lookup'[data'[k].id] = k - 1
              /\ DOMAIN lookup' = {data'[k].id : k \in 1..Len(data')}]_vars

\* A collection was opened a second time, on a directory that by then
\* held two files, and has two entries.
C23_Witness ==
    /\ stOpen /\ opened = StOk /\ opens = 2
    /\ Cardinality(DOMAIN files) = 2 /\ Len(data) = 2
    /\ AllDecode
    /\ \A c \in Cells : hist[c] = <<>> /\ base[c] = data[c]

\* The id lists passed to get_by_ids, of length 0 to 2.
IdLists == {<<>>} \cup {<<q>> : q \in Queries} \cup QuerySeqs

\* C24 as stated: get_by_ids gives one result per requested id, in the
\* order requested, each pairing the id as requested with the outcome of
\* get_by_id for it: a handle on the record of that id when the id is
\* present, ObjectNotFound when it is not.
C24_OneResultPerRequestedId ==
    stOpen =>
        \A ids \in IdLists :
            LET r == get_by_ids(Storage, ids)
            IN  /\ Len(r) = Len(ids)
                /\ \A k \in 1..Len(ids) :
                       /\ r[k].id = ids[k]
                       /\ r[k].res = get_by_id(Storage, ids[k])
                       /\ IF ids[k] \in EntryIds(Storage)
                          THEN r[k].res.ok /\ data[r[k].res.cell].id = ids[k]
                          ELSE ~r[k].res.ok /\ r[k].res.err = "ObjectNotFound"

\* C24 amended: get_by_ids gives one result per requested id, in the order
\* requested, each pairing the trimmed form of the id with the outcome of
\* get_by_id for the id: a handle on the record whose id is the trimmed
\* form when there is one, ObjectNotFound otherwise; a missing id neither
\* fails nor shortens the batch.
C24_OneResultPerTrimmedId ==
    stOpen =>
        \A ids \in IdLists :
            LET r == get_by_ids(Storage, ids)
            IN  /\ Len(r) = Len(ids)
                /\ \A k \in 1..Len(ids) :
                       /\ r[k].id = Trim(ids[k])
                       /\ r[k].res = get_by_id(Storage, ids[k])
                       /\ IF Trim(ids[k]) \in EntryIds(Storage)
                          THEN /\ r[k].res.ok
                               /\ data[r[k].res.cell].id = Trim(ids[k])
                          ELSE /\ ~r[k].res.ok
                               /\ r[k].res.err = "ObjectNotFound"

\* With records "a" and " a" stored, the batch <<"a ", "b">> has a handle on
\* record "a" first and ObjectNotFound second.
C24_Witness ==
    /\ stOpen
    /\ EntryIds(Storage) = {<<"a">>, <<" ", "a">>}
    /\ LET r == get_by_ids(Storage, <<<<"a", " ">>, <<"b">>>>)
       IN  /\ Len(r) = 2
           /\ r[1].res.ok /\ data[r[1].res.cell].id = <<"a">>
           /\ ~r[2].res.ok

\* C25: for an error of either type and of every variant, the Display
\* text and the Debug text are the same; InternalError(msg) is rendered
\* "Internal error: <msg>", ObjectNotFound "Storage object not found in
\* storage." and PathNotFound "Path not found".
C25_DisplayEqualsDebug ==
    LET Expected(t) ==
            /\ shown.err.variant = "InternalError" =>
                   t = "Internal error: " \o shown.err.msg
            /\ shown.err.variant = "ObjectNotFound" =>
                   t = "Storage object not found in storage."
            /\ shown.err.variant = "PathNotFound" => t = "Path not found"
    IN  /\ shown.display # <<>> => Expected(shown.display[1])
        /\ shown.debug # <<>> => Expected(shown.debug[1])
        /\ (shown.display # <<>> /\ shown.debug # <<>>) =>
               shown.display = shown.debug

\* InternalError("test error") of the collection's Error type has been
\* formatted both ways.
C25_Witness ==
    /\ shown.err = [ty |-> "Error", variant |-> "InternalError",
                    msg |-> "test error"]
    /\ shown.display = <<"Internal error: test error">>
    /\ shown.debug = <<"Internal error: test error">>

----------------------------------------------------------------------------
(* Claims about concurrent inserts *)

\* The entries that hold a record of this id.
CellsOf(id) == {c \in Cells : data[c].id = id}

----------------------------------------------------------------------------
(* Claims about files after failures, lookups, snapshots and removal *)

\* C27: when the persist of an update fails, the record's file, which held
\* the value from before the update, still decodes to that value, and the
\* value in memory is that value again.
C27_FailedPersistKeepsFile ==
    [][\A t \in Threads, io \in WriteOutcomes :
          (/\ UpdateSave(t, io)
           /\ lock_unwrap(t, hnd[t]) = "locked"
           /\ SaveFails(io)
           /\ PathOf(pre[t].id) \in DOMAIN files
           /\ deserialize_object(files[PathOf(pre[t].id)]).ok
           /\ deserialize_object(files[PathOf(pre[t].id)]).rec = pre[t]) =>
              /\ PathOf(pre[t].id) \in DOMAIN files'
              /\ deserialize_object(files'[PathOf(pre[t].id)]).ok
              /\ deserialize_object(files'[PathOf(pre[t].id)]).rec = pre[t]
              /\ data'[hnd[t]] = pre[t]]_vars

\* Strings looked up: the queries, the empty string, whitespace alone,
\* whitespace on both sides and whitespace inside.
LookupStrings ==
    Queries \cup {<<>>, <<" ">>, <<" ", "a", " ">>, <<"a", " ", "b">>}

\* C28: get_by_id of a string gives what get_by_id of the trimmed string
\* gives; a handle it returns is on the record whose id is the trimmed
\* string, so a record whose id has leading or trailing whitespace is not
\* what a query by that id returns.
C28_LookupIgnoresOuterWhitespace ==
    stOpen =>
        /\ \A q \in LookupStrings :
               /\ get_by_id(Storage, q) = get_by_id(Storage, Trim(q))
               /\ get_by_id(Storage, q).ok <=> Trim(q) \in EntryIds(Storage)
               /\ get_by_id(Storage, q).ok =>
                      data[get_by_id(Storage, q).cell].id = Trim(q)
        /\ \A c \in Cells :
               Trim(data[c].id) # data[c].id =>
                   LET r == get_by_id(Storage, data[c].id)
                   IN  r.cell # c /\ (r.ok => data[r.cell].id = Trim(data[c].id))

\* Only the record " a" is stored: the queries " a", "a" and "a " are all
\* answered ObjectNotFound.
C28_Witness ==
    /\ stOpen
    /\ EntryIds(Storage) = {<<" ", "a">>}
    /\ \A q \in {<<" ", "a">>, <<"a">>, <<"a", " ">>} :
           get_by_id(Storage, q) = get_by_id(Storage, <<"a">>)
    /\ ~get_by_id(Storage, <<" ", "a">>).ok

\* C29: an iterator holds the entry list as it was when the iteration
\* started: inserts made during the iteration leave its list alone and are
\* not yielded, so it yields the entries of the start, in their order, and
\* ends after as many items as there were; an update of a record already
\* present is what a read through the handle yielded for it gives.
C29_IteratorWorksOnSnapshot ==
    /\ [](iter.live =>
            /\ iter.started <= Len(data)
            /\ iter.data = [i \in 1..iter.started |-> i]
            /\ Len(iter.yielded) <= iter.started
            /\ \A k \in DOMAIN iter.yielded : iter.yielded[k] = k
            /\ iter.ended => Len(iter.yielded) = iter.started)
    /\ [][(iter.live /\ iter'.live) =>
             /\ iter'.data = iter.data
             /\ iter'.started = iter.started
             /\ Len(iter'.yielded) >= Len(iter.yielded)
             /\ SubSeq(iter'.yielded, 1, Len(iter.yielded)) = iter.yielded]_vars
    /\ [][\A t \in Threads, f \in Updates :
             (/\ UpdateApply(t, f)
              /\ lock_unwrap(t, hnd[t]) = "locked"
              /\ iter.live) =>
                 \A k \in DOMAIN iter.yielded, u \in Threads :
                     iter.yielded[k] = hnd[t] =>
                         get(u, iter.yielded[k])' =
                             StVal(Apply(f, data[hnd[t]].age))]_vars

\* An iteration started on one record has ended after one item although
\* the collection has two records by now, and the record it yielded has
\* been updated since the collection was opened.
C29_Witness ==
    /\ iter.live /\ iter.ended
    /\ iter.started = 1 /\ iter.yielded = <<1>>
    /\ Len(data) = 2
    /\ hist[1] # <<>> /\ data[1].age # base[1].age

\* C30: a remove that succeeds deletes the directory and every file in it
\* and changes nothing in memory: the entries, the lookup table, the locks
\* and the handles the threads hold are as before; a collection opened on
\* the path afterwards has zero entries.
C30_RemoveDeletesFilesOnly ==
    /\ [][\A t \in Threads, io \in IoOutcomes :
             (/\ Remove(t, io)
              /\ remove_path(dirExists, files, io).ret = StOk) =>
                 /\ ~dirExists' /\ files' = NoFiles
                 /\ data' = data /\ lookup' = lookup /\ stOpen' = stOpen
                 /\ lock' = lock /\ poisoned' = poisoned
                 /\ hnd' = hnd /\ pc' = pc]_vars
    /\ [](~dirExists =>
            /\ files = NoFiles
            /\ LET r == load_storage(dirExists, files, <<>>, "ok", "ok")
               IN  /\ r.ret = StOk /\ r.exists
                   /\ r.st.data = <<>> /\ DOMAIN r.st.lookup = {})

\* The directory of an open collection of two records is gone while a
\* thread holds a handle on one of them.
C30_Witness ==
    /\ stOpen /\ ~dirExists /\ files = NoFiles
    /\ Len(data) = 2 /\ DOMAIN lookup = Ids
    /\ \E t \in Threads : pc[t] = "handle" /\ hnd[t] \in Cells

====
